---- MODULE Spec2Model ----
(***************************************************************************)
(* Model of the record manager of src/prog/ind1.py (Planes) and            *)
(* src/prog/ind2.py (Trains).  The two scripts differ only in the names    *)
(* of the class, of its list field and of the XML tags they write; the     *)
(* model follows ind1.py and is line for line valid for ind2.py.           *)
(*                                                                         *)
(* A Python str is modelled as a sequence of one-character strings, so     *)
(* that lower(), split(), the regular expression of strptime, the XML      *)
(* escaping and the comparison used by sort are computed character by      *)
(* character.  The character U+0663 (ARABIC-INDIC DIGIT THREE) is written  *)
(* "U+0663".                                                               *)
(***************************************************************************)
EXTENDS Integers, Sequences, FiniteSets, TLC

VARIABLES
    planes,     \* Planes.planes: the list of Plane records
    fs,         \* the files of the working directory: path -> [exists, data]
    running,    \* TRUE while the "while True" loop of __main__ has not hit break
    last,       \* what the last iteration of the loop did (command, core call, exception, output)
    tin         \* the time string typed at the "add" prompt in SpecTime

vars == <<planes, fs, running, last, tin>>

\* Bounds of the model.
MaxPlanes == 3
MaxTimeLen == 5

(***************************************************************************)
(* Characters                                                              *)
(***************************************************************************)
AsciiDigits == {"0", "1", "2", "3", "4", "5", "6", "7", "8", "9"}

\* Unicode decimal digits outside ASCII that the model knows.
OtherDigits == {"U+0663"}

\* int() of a single decimal digit.
DigitValue(c) ==
    CASE c = "0" -> 0 [] c = "1" -> 1 [] c = "2" -> 2 [] c = "3" -> 3
      [] c = "4" -> 4 [] c = "5" -> 5 [] c = "6" -> 6 [] c = "7" -> 7
      [] c = "8" -> 8 [] c = "9" -> 9 [] c = "U+0663" -> 3

\* ord(c) for the characters that occur in names.
Ord(c) ==
    CASE c = "&" -> 38 [] c = "7" -> 55 [] c = "A" -> 65 [] c = "B" -> 66
      [] c = "a" -> 97 [] c = "b" -> 98 [] OTHER -> 120

\* str.lower() on one character.
LowerChar(c) ==
    CASE c = "A" -> "a" [] c = "B" -> "b" [] c = "D" -> "d" [] c = "E" -> "e"
      [] c = "I" -> "i" [] c = "L" -> "l" [] c = "S" -> "s" [] c = "T" -> "t"
      [] c = "X" -> "x" [] OTHER -> c

\* str.lower()
Lower(s) == [i \in 1..Len(s) |-> LowerChar(s[i])]

\* Python's str < str: lexicographic by code point, a proper prefix is smaller.
RECURSIVE StrLess(_, _)
StrLess(a, b) ==
    IF b = <<>> THEN FALSE
    ELSE IF a = <<>> THEN TRUE
    ELSE IF Ord(Head(a)) # Ord(Head(b)) THEN Ord(Head(a)) < Ord(Head(b))
    ELSE StrLess(Tail(a), Tail(b))

(***************************************************************************)
(* datetime.strptime(time, "%H:%M")                                        *)
(* The format compiles to (?P<H>2[0-3]|[0-1]\d|\d):(?P<M>[0-5]\d|\d);      *)
(* \d matches every Unicode decimal digit.  strptime raises ValueError     *)
(* when the expression does not match at the start of the string, or when  *)
(* the match does not reach the end of the string.                         *)
(***************************************************************************)
IsDecimal(c) == c \in AsciiDigits \cup OtherDigits

At(s, i) == IF i >= 1 /\ i <= Len(s) THEN s[i] ELSE ""

\* The alternatives of group H, in the order the expression tries them:
\* the lengths each alternative can match at position 1.
HAlternatives(s) ==
    (IF At(s, 1) = "2" /\ At(s, 2) \in {"0", "1", "2", "3"} THEN <<2>> ELSE <<>>)
    \o (IF At(s, 1) \in {"0", "1"} /\ IsDecimal(At(s, 2)) THEN <<2>> ELSE <<>>)
    \o (IF IsDecimal(At(s, 1)) THEN <<1>> ELSE <<>>)

\* Group M at position i: the first alternative that matches (0: none).
MLength(s, i) ==
    IF At(s, i) \in {"0", "1", "2", "3", "4", "5"} /\ IsDecimal(At(s, i + 1)) THEN 2
    ELSE IF IsDecimal(At(s, i)) THEN 1
    ELSE 0

\* re.match: the end of the first match found by backtracking over H (0: no match).
RECURSIVE ReMatchFrom(_, _, _)
ReMatchFrom(s, alts, k) ==
    IF k > Len(alts) THEN 0
    ELSE LET h == alts[k]
             m == MLength(s, h + 2)
         IN  IF At(s, h + 1) = ":" /\ m > 0 THEN h + 1 + m
             ELSE ReMatchFrom(s, alts, k + 1)

ReMatch(s) == ReMatchFrom(s, HAlternatives(s), 1)

\* TRUE when strptime returns, FALSE when it raises ValueError.
strptime_padded(s) ==
    /\ Len(s) = 5
    /\ ReMatch(s) = 5
    /\ s[3] = ":"

strptime(s) == ReMatch(s) # 0 /\ ReMatch(s) = Len(s)

(***************************************************************************)
(* Plane and Planes: add, select                                           *)
(***************************************************************************)
\* Plane(name=..., no=..., time_str=...): the frozen dataclass.
Plane(name, no, time_str) == [name |-> name, no |-> no, time_str |-> time_str]

\* Insert p behind every record whose key is not greater than p's key.
RECURSIVE InsertByName(_, _)
InsertByName(sorted, p) ==
    IF sorted = <<>> THEN <<p>>
    ELSE IF StrLess(p.name, Head(sorted).name) THEN <<p>> \o sorted
    ELSE <<Head(sorted)>> \o InsertByName(Tail(sorted), p)

\* An unstable variant: p goes in front of the records with an equal key.
RECURSIVE InsertByNameUnstable(_, _)
InsertByNameUnstable(sorted, p) ==
    IF sorted = <<>> THEN <<p>>
    ELSE IF ~StrLess(Head(sorted).name, p.name) THEN <<p>> \o sorted
    ELSE <<Head(sorted)>> \o InsertByNameUnstable(Tail(sorted), p)

RECURSIVE SortUnstable(_, _)
SortUnstable(ps, acc) ==
    IF ps = <<>> THEN acc
    ELSE SortUnstable(Tail(ps), InsertByNameUnstable(acc, Head(ps)))

SortByNameUnstable(ps) == SortUnstable(ps, <<>>)

\* list.sort(key=lambda plane: plane.name): ascending by key and stable, which
\* fixes the result; computed here by insertion from left to right.
RECURSIVE SortStable(_, _)
SortStable(ps, acc) ==
    IF ps = <<>> THEN acc
    ELSE SortStable(Tail(ps), InsertByName(acc, Head(ps)))

SortByName(ps) == SortStable(ps, <<>>)

\* The outcome of a core call: the exception it raised ("" when it returned),
\* the value the exception carries, and the list the object holds afterwards.
Outcome(exc, payload, ps) == [exc |-> exc, payload |-> payload, planes |-> ps]

\* A variant of add that appends before it validates.
add_AppendFirst(ps, name, no, time) ==
    IF ~strptime(time)
    THEN Outcome("IllegalDateError", time, Append(ps, Plane(name, no, time)))
    ELSE Outcome("", <<>>, SortByName(Append(ps, Plane(name, no, time))))

\* Planes.add
add(ps, name, no, time) ==
    IF ~strptime(time)
    THEN Outcome("IllegalDateError", time, ps)
    ELSE Outcome("", <<>>, SortByName(Append(ps, Plane(name, no, time))))

\* A variant of select that stops at the first match.
RECURSIVE select_First(_, _)
select_First(ps, nomer) ==
    IF ps = <<>> THEN <<>>
    ELSE IF Head(ps).no = nomer THEN <<Head(ps)>>
    ELSE select_First(Tail(ps), nomer)

\* Planes.select: nomer is a str, so str(nomer) is nomer.
RECURSIVE select(_, _)
select(ps, nomer) ==
    IF ps = <<>> THEN <<>>
    ELSE IF Head(ps).no = nomer THEN <<Head(ps)>> \o select(Tail(ps), nomer)
    ELSE select(Tail(ps), nomer)

(***************************************************************************)
(* XML text.  A file is a sequence of tokens as the XML tokenizer sees     *)
(* them: the declaration, start tags, end tags, empty-element tags,        *)
(* single characters of character data and entity references.              *)
(***************************************************************************)
Tok(k, v) == [k |-> k, v |-> v]

None == <<>>
Some(s) == <<s>>

\* An Element: its tag, its .text (None or Some(str)) and its children.
Element(tag, text, kids) == [tag |-> tag, text |-> text, kids |-> kids]

\* ElementTree._escape_cdata
RECURSIVE EscapeCdata(_)
EscapeCdata(s) ==
    IF s = <<>> THEN <<>>
    ELSE (CASE Head(s) = "&" -> <<Tok("ent", "amp")>>
            [] Head(s) = "<" -> <<Tok("ent", "lt")>>
            [] Head(s) = ">" -> <<Tok("ent", "gt")>>
            [] OTHER -> <<Tok("chr", Head(s))>>)
         \o EscapeCdata(Tail(s))

\* ElementTree._serialize_xml with short_empty_elements=True: an element whose
\* text is falsy (None or "") and that has no children is written <tag />.
RECURSIVE SerializeXml(_)
RECURSIVE SerializeKids(_)
SerializeKids(kids) ==
    IF kids = <<>> THEN <<>>
    ELSE SerializeXml(Head(kids)) \o SerializeKids(Tail(kids))

SerializeXml(e) ==
    LET text == IF e.text = None THEN <<>> ELSE e.text[1]
    IN  IF text # <<>> \/ e.kids # <<>>
        THEN <<Tok("stag", e.tag)>> \o EscapeCdata(text) \o SerializeKids(e.kids)
             \o <<Tok("etag", e.tag)>>
        ELSE <<Tok("empty", e.tag)>>

\* ElementTree.write(fout, encoding="utf8", xml_declaration=True)
TreeWrite(root) == <<Tok("decl", "utf8"), Tok("chr", "\n")>> \o SerializeXml(root)

\* The predefined entities of XML.
EntityChar(n) ==
    CASE n = "amp" -> "&" [] n = "lt" -> "<" [] n = "gt" -> ">"
      [] n = "quot" -> "\"" [] n = "apos" -> "'" [] OTHER -> ""

\* A character that may stand in character data as it is.
IsCharData(c) == c \notin {"<", "&", "U+0001"}

IsSpace(c) == c \in {" ", "\n"}

ParseFail == [ok |-> FALSE, node |-> Element("", None, <<>>), next |-> 0]

\* The content of the open element tag, from token i on: character data before
\* the first child is the element's text (None when there is none), character
\* data after a child is that child's tail, which nothing here reads.
\* next is the position behind the end tag.
RECURSIVE ParseContent(_, _, _, _, _)
ParseContent(toks, i, tag, text, kids) ==
    IF i > Len(toks) THEN ParseFail
    ELSE LET t == toks[i] IN
      CASE t.k = "etag" ->
             IF t.v = tag
             THEN [ok |-> TRUE,
                   node |-> Element(tag, IF text = <<>> THEN None ELSE Some(text), kids),
                   next |-> i + 1]
             ELSE ParseFail
        [] t.k = "chr" ->
             IF IsCharData(t.v)
             THEN ParseContent(toks, i + 1, tag,
                               IF kids = <<>> THEN Append(text, t.v) ELSE text, kids)
             ELSE ParseFail
        [] t.k = "ent" ->
             IF EntityChar(t.v) # ""
             THEN ParseContent(toks, i + 1, tag,
                               IF kids = <<>> THEN Append(text, EntityChar(t.v)) ELSE text,
                               kids)
             ELSE ParseFail
        [] t.k = "empty" ->
             ParseContent(toks, i + 1, tag, text, Append(kids, Element(t.v, None, <<>>)))
        [] t.k = "stag" ->
             LET r == ParseContent(toks, i + 1, t.v, <<>>, <<>>)
             IN  IF r.ok THEN ParseContent(toks, r.next, tag, text, Append(kids, r.node))
                 ELSE ParseFail
        [] OTHER -> ParseFail

\* The first position from i on that holds no white space.
RECURSIVE SkipSpace(_, _)
SkipSpace(toks, i) ==
    IF i <= Len(toks) /\ toks[i].k = "chr" /\ IsSpace(toks[i].v)
    THEN SkipSpace(toks, i + 1)
    ELSE i

\* ET.fromstring: an optional declaration at the very start, one root element,
\* nothing but white space around it.  ok is FALSE where it raises ParseError.
fromstring(toks) ==
    LET start == SkipSpace(toks, IF Len(toks) >= 1 /\ toks[1].k = "decl" THEN 2 ELSE 1)
        root == IF start > Len(toks) THEN ParseFail
                ELSE IF toks[start].k = "empty"
                     THEN [ok |-> TRUE, node |-> Element(toks[start].v, None, <<>>),
                           next |-> start + 1]
                ELSE IF toks[start].k = "stag"
                     THEN ParseContent(toks, start + 1, toks[start].v, <<>>, <<>>)
                ELSE ParseFail
    IN  IF root.ok /\ SkipSpace(toks, root.next) > Len(toks) THEN root ELSE ParseFail

(***************************************************************************)
(* Planes.load and Planes.save                                             *)
(***************************************************************************)
\* The inner loop of load over the children of one record element, from child j
\* on: each child with a known tag assigns its .text (None included) to its
\* variable, and the test that appends the Plane stands inside this loop, so it
\* runs after every child.
RECURSIVE LoadFields(_, _, _, _, _, _)
LoadFields(kids, j, name, no, time_str, acc) ==
    IF j > Len(kids) THEN acc
    ELSE LET e == kids[j]
             name2 == IF e.tag = "name" THEN e.text ELSE name
             no2 == IF e.tag = "no" THEN e.text ELSE no
             time2 == IF e.tag = "time" THEN e.text ELSE time_str
             acc2 == IF name2 # None /\ no2 # None /\ time2 # None
                     THEN Append(acc, Plane(name2[1], no2[1], time2[1]))
                     ELSE acc
         IN  LoadFields(kids, j + 1, name2, no2, time2, acc2)

\* The outer loop of load over the children of the root.
RECURSIVE LoadElements(_, _, _)
LoadElements(elems, i, acc) ==
    IF i > Len(elems) THEN acc
    ELSE LoadElements(elems, i + 1, LoadFields(elems[i].kids, 1, None, None, None, acc))

\* open(filename, "r") succeeds.
CanRead(files, filename) == filename \in DOMAIN files /\ files[filename].exists

\* open(filename, "wb") succeeds: the directory of the path exists.
CanCreate(files, filename) == filename \in DOMAIN files

\* A variant of load that keeps the records the list held.
load_Keep(ps, files, filename) ==
    IF ~CanRead(files, filename) THEN Outcome("FileNotFoundError", filename, ps)
    ELSE LET tree == fromstring(files[filename].data)
         IN  IF ~tree.ok THEN Outcome("ParseError", <<>>, ps)
             ELSE Outcome("", <<>>, LoadElements(tree.node.kids, 1, ps))

\* A variant of load that sorts what it read.
load_Sorted(ps, files, filename) ==
    IF ~CanRead(files, filename) THEN Outcome("FileNotFoundError", filename, ps)
    ELSE LET tree == fromstring(files[filename].data)
         IN  IF ~tree.ok THEN Outcome("ParseError", <<>>, ps)
             ELSE Outcome("", <<>>, SortByName(LoadElements(tree.node.kids, 1, <<>>)))

\* Planes.load
load(ps, files, filename) ==
    IF ~CanRead(files, filename) THEN Outcome("FileNotFoundError", filename, ps)
    ELSE LET tree == fromstring(files[filename].data)
         IN  IF ~tree.ok THEN Outcome("ParseError", <<>>, ps)
             ELSE Outcome("", <<>>, LoadElements(tree.node.kids, 1, <<>>))

\* The element save builds for one Plane.
PlaneElement(plane) ==
    Element("plane", None,
            << Element("name", Some(plane.name), <<>>),
               Element("no", Some(plane.no), <<>>),
               Element("time", Some(plane.time_str), <<>>) >>)

\* Planes.save: the exception it raised and the files afterwards.
save(ps, files, filename) ==
    IF ~CanCreate(files, filename)
    THEN [exc |-> "FileNotFoundError", payload |-> filename, fs |-> files]
    ELSE [exc |-> "", payload |-> <<>>,
          fs |-> [files EXCEPT ![filename] =
                    [exists |-> TRUE,
                     data |-> TreeWrite(Element("planes", None,
                                 [i \in 1..Len(ps) |-> PlaneElement(ps[i])]))]]]

(***************************************************************************)
(* The command loop of __main__                                            *)
(***************************************************************************)
IsPySpace(c) == c \in {" ", "\t", "\n"}

RECURSIVE SkipPySpace(_, _)
SkipPySpace(s, i) ==
    IF i <= Len(s) /\ IsPySpace(s[i]) THEN SkipPySpace(s, i + 1) ELSE i

RECURSIVE WordEnd(_, _)
WordEnd(s, i) ==
    IF i <= Len(s) /\ ~IsPySpace(s[i]) THEN WordEnd(s, i + 1) ELSE i

\* str.split(maxsplit=1): the first word, and the rest of the string from the
\* next character that is no white space, when there is one.
split(s) ==
    LET a == SkipPySpace(s, 1)
        b == WordEnd(s, a)
        c == SkipPySpace(s, b)
    IN  IF a > Len(s) THEN <<>>
        ELSE IF c > Len(s) THEN <<SubSeq(s, a, b - 1)>>
        ELSE <<SubSeq(s, a, b - 1), SubSeq(s, c, Len(s))>>

\* str.startswith
startswith(s, prefix) == Len(s) >= Len(prefix) /\ SubSeq(s, 1, Len(prefix)) = prefix

W_exit == <<"e", "x", "i", "t">>
W_add == <<"a", "d", "d">>
W_list == <<"l", "i", "s", "t">>
W_help == <<"h", "e", "l", "p">>
W_select == <<"s", "e", "l", "e", "c", "t">>
W_load == <<"l", "o", "a", "d">>
W_save == <<"s", "a", "v", "e">>
SP == <<" ">>

\* The branch of the if/elif chain that a lowered command takes.
Branch(command) ==
    IF command = W_exit THEN "exit"
    ELSE IF command = W_add THEN "add"
    ELSE IF command = W_list THEN "list"
    ELSE IF startswith(command, W_select \o SP) THEN "select"
    ELSE IF startswith(command, W_load \o SP) THEN "load"
    ELSE IF startswith(command, W_save \o SP) THEN "save"
    ELSE IF command = W_help THEN "help"
    ELSE "unknown"

\* command = input(">>> ").lower()
ReadCommand(line) == Lower(line)

\* A variant of the handler that catches the two exceptions of the program only.
Caught_OwnOnly(exc) == exc \in {"IllegalDateError", "UnknownCommandError"}

\* except Exception: every exception the commands raise derives from Exception.
Caught(exc) ==
    exc \in {"IllegalDateError", "UnknownCommandError", "FileNotFoundError",
             "ParseError", "IndexError"}

NoLast ==
    [op |-> "none", line |-> <<>>, arg |-> <<>>, input |-> <<>>, exc |-> "",
     payload |-> <<>>, out |-> <<>>, shown |-> ""]

\* The end of one iteration: an exception goes to the handler, which logs and
\* prints it (shown = "error"); an exception the handler does not catch ends
\* the process.  The loop then reads the next command.
Finish(op, line, arg, input, exc, payload, out, shown) ==
    /\ last' = [op |-> op, line |-> line, arg |-> arg, input |-> input, exc |-> exc,
                payload |-> payload, out |-> out,
                shown |-> IF exc = "" THEN shown ELSE IF Caught(exc) THEN "error" ELSE "traceback"]
    /\ running' = (exc = "" \/ Caught(exc))

(***************************************************************************)
(* What the user types and what the working directory holds at the start   *)
(***************************************************************************)
N_empty == <<>>
N_b == <<"b">>
N_Bamp == <<"B", "&">>
No_A7 == <<"A", "7">>
No_a7 == <<"a", "7">>
No_7 == <<"7">>
T_0950 == <<"0", "9", ":", "5", "0">>
T_9_5 == <<"9", ":", "5">>
T_2599 == <<"2", "5", ":", "9", "9">>
T_noon == <<"n", "o", "o", "n">>
T_9999 == <<"9", "9", ":", "9", "9">>

\* The answers to the three prompts of the command add.
AddInputs ==
    { <<N_b, No_A7, T_0950>>, <<N_b, No_a7, T_9_5>>, <<N_empty, No_a7, T_0950>>,
      <<N_b, No_A7, T_2599>>, <<N_empty, No_a7, T_noon>> }

P_db == <<"d", "b", ".", "x", "m", "l">>
P_DB == <<"D", "B", ".", "x", "m", "l">>
P_nodir == <<"n", "o", "d", "i", "r", "/", "f", ".", "x", "m", "l">>

\* The paths of the working directory that can hold a file; the directory
\* nodir does not exist.
Files == {P_db, P_DB}

\* The command lines typed at the prompt.
Lines ==
    { W_exit, W_add, W_list, W_help, <<"L", "I", "S", "T">>, <<"b", "o", "g", "u", "s">>,
      W_select \o SP \o No_A7, W_select \o SP \o No_a7, W_select \o SP \o No_7,
      W_select \o SP,
      W_load \o SP \o P_db, W_load \o SP \o P_DB, W_load \o SP \o P_nodir, W_load \o SP,
      W_save \o SP \o P_db, W_save \o SP \o P_DB, W_save \o SP \o P_nodir, W_save \o SP }

Chars(s) == [i \in 1..Len(s) |-> Tok("chr", s[i])]
Field(tag, toks) == <<Tok("stag", tag)>> \o toks \o <<Tok("etag", tag)>>
NL == <<Tok("chr", "\n")>>

\* A well-formed file in the layout of the documentation: the first record is
\* b/a7/99:99 with its fields in the order time, no, name; the second element
\* has no time; the third is B&/A7/09:50.  Not in name order, one time invalid.
DocUnsorted ==
    Field("roots",
        NL \o Field("entry", Field("time", Chars(T_9999)) \o Field("no", Chars(No_a7))
                             \o Field("name", Chars(N_b)))
        \o NL \o Field("entry", Field("name", <<Tok("chr", "B"), Tok("ent", "amp")>>)
                                \o Field("no", Chars(No_A7)))
        \o NL \o Field("entry", Field("name", <<Tok("chr", "B"), Tok("ent", "amp")>>)
                                \o Field("no", Chars(No_A7))
                                \o Field("time", Chars(T_0950)))
        \o NL)

\* A well-formed file whose only record element has a fourth child.
DocExtra ==
    Field("planes",
        Field("plane", Field("name", Chars(N_b)) \o Field("no", Chars(No_a7))
                       \o Field("time", Chars(T_0950)) \o <<Tok("empty", "seat")>>))

\* A file that is not well-formed: the element plane is never closed.
DocBroken ==
    <<Tok("stag", "planes"), Tok("stag", "plane")>> \o Field("name", Chars(N_b))
    \o <<Tok("etag", "planes")>>

NoFile == [exists |-> FALSE, data |-> <<>>]
File(data) == [exists |-> TRUE, data |-> data]

InitialFiles == {NoFile, File(DocUnsorted), File(DocExtra), File(DocBroken)}

(***************************************************************************)
(* The state machine: one action per command                               *)
(***************************************************************************)
Init ==
    /\ planes = <<>>
    /\ \E f \in InitialFiles : fs = [p \in Files |-> IF p = P_db THEN f ELSE NoFile]
    /\ running = TRUE
    /\ last = NoLast
    /\ tin = <<>>

\* po.add(name, no, time_str) with the answers to the three prompts.
DoAdd(line, name, no, time_str) ==
    LET r == add(planes, name, no, time_str)
    IN  /\ planes' = r.planes
        /\ Finish("add", line, <<>>, <<name, no, time_str>>, r.exc, r.payload, <<>>, "")
        /\ UNCHANGED <<fs, tin>>

CmdExit ==
    \E line \in Lines :
        /\ running
        /\ Branch(ReadCommand(line)) = "exit"
        /\ running' = FALSE
        /\ last' = [NoLast EXCEPT !.op = "exit", !.line = line]
        /\ UNCHANGED <<planes, fs, tin>>

CmdAdd ==
    \E line \in Lines, in \in AddInputs :
        /\ running
        /\ Branch(ReadCommand(line)) = "add"
        /\ Len(planes) < MaxPlanes
        /\ DoAdd(line, in[1], in[2], in[3])

\* print(po): the table has one data row per record; nothing changes.
CmdList ==
    \E line \in Lines :
        /\ running
        /\ Branch(ReadCommand(line)) = "list"
        /\ Finish("list", line, <<>>, <<>>, "", <<>>, <<>>, "table")
        /\ UNCHANGED <<planes, fs, tin>>

\* parts[1] raises IndexError when nothing follows the word select.
CmdSelect ==
    \E line \in Lines :
        LET parts == split(ReadCommand(line)) IN
        /\ running
        /\ Branch(ReadCommand(line)) = "select"
        /\ IF Len(parts) < 2
           THEN Finish("select", line, <<>>, <<>>, "IndexError", <<>>, <<>>, "")
           ELSE LET selected == select(planes, parts[2])
                IN  Finish("select", line, parts[2], <<>>, "", <<>>, selected,
                           IF selected # <<>> THEN "rows" ELSE "notfound")
        /\ UNCHANGED <<planes, fs, tin>>

CmdLoad ==
    \E line \in Lines :
        LET parts == split(ReadCommand(line)) IN
        /\ running
        /\ Branch(ReadCommand(line)) = "load"
        /\ IF Len(parts) < 2
           THEN /\ Finish("load", line, <<>>, <<>>, "IndexError", <<>>, <<>>, "")
                /\ planes' = planes
           ELSE LET r == load(planes, fs, parts[2])
                IN  /\ planes' = r.planes
                    /\ Finish("load", line, parts[2], <<>>, r.exc, r.payload, <<>>, "")
        /\ UNCHANGED <<fs, tin>>

CmdSave ==
    \E line \in Lines :
        LET parts == split(ReadCommand(line)) IN
        /\ running
        /\ Branch(ReadCommand(line)) = "save"
        /\ IF Len(parts) < 2
           THEN /\ Finish("save", line, <<>>, <<>>, "IndexError", <<>>, <<>>, "")
                /\ fs' = fs
           ELSE LET r == save(planes, fs, parts[2])
                IN  /\ fs' = r.fs
                    /\ Finish("save", line, parts[2], <<>>, r.exc, r.payload, <<>>, "")
        /\ UNCHANGED <<planes, tin>>

CmdHelp ==
    \E line \in Lines :
        /\ running
        /\ Branch(ReadCommand(line)) = "help"
        /\ Finish("help", line, <<>>, <<>>, "", <<>>, <<>>, "help")
        /\ UNCHANGED <<planes, fs, tin>>

\* raise UnknownCommandError(command)
CmdUnknown ==
    \E line \in Lines :
        /\ running
        /\ Branch(ReadCommand(line)) = "unknown"
        /\ Finish("unknown", line, <<>>, <<>>, "UnknownCommandError", ReadCommand(line),
                  <<>>, "")
        /\ UNCHANGED <<planes, fs, tin>>

Next ==
    \/ CmdExit
    \/ CmdAdd
    \/ CmdList
    \/ CmdSelect
    \/ CmdLoad
    \/ CmdSave
    \/ CmdHelp
    \/ CmdUnknown

Spec == Init /\ [][Next]_vars

(***************************************************************************)
(* The validation of add on every short time string: one add on an empty   *)
(* list, the time drawn from all strings over TimeChars.                    *)
(***************************************************************************)
TimeChars == {"0", "2", "5", "9", ":", "n", "o", "U+0663"}

TimeStrings == UNION {[1..n -> TimeChars] : n \in 0..MaxTimeLen}

InitTime ==
    /\ planes = <<>>
    /\ fs = [p \in Files |-> NoFile]
    /\ running = TRUE
    /\ last = NoLast
    /\ tin \in TimeStrings

AddTyped ==
    /\ running
    /\ last.op = "none"
    /\ DoAdd(W_add, N_b, No_A7, tin)

NextTime == AddTyped

SpecTime == InitTime /\ [][NextTime]_vars

(***************************************************************************)
(* Vocabulary of the properties                                            *)
(***************************************************************************)
\* Ascending by name.
SortedByName(ps) ==
    \A i \in 1..(Len(ps) - 1) : ~StrLess(ps[i + 1].name, ps[i].name)

\* The records of ps that carry the name n, in the order of ps.
RECURSIVE WithName(_, _)
WithName(ps, n) ==
    IF ps = <<>> THEN <<>>
    ELSE (IF Head(ps).name = n THEN <<Head(ps)>> ELSE <<>>) \o WithName(Tail(ps), n)

NamesIn(ps) == {ps[i].name : i \in DOMAIN ps}

\* The Plane that the last command add was asked to add.
LastInput(l) == Plane(l.input[1], l.input[2], l.input[3])

\* The root element of the well-formed file at path.
DocOf(files, path) == fromstring(files[path].data).node

HasField(e, t) == \E j \in DOMAIN e.kids : e.kids[j].tag = t

HasAllFields(e) == HasField(e, "name") /\ HasField(e, "no") /\ HasField(e, "time")

\* e has a child t whose text is the string s.
FieldIs(e, t, s) == \E j \in DOMAIN e.kids : e.kids[j].tag = t /\ e.kids[j].text = Some(s)

\* Each field of the record p is the text of the child of that name in e.
TakenFrom(p, e) ==
    FieldIs(e, "name", p.name) /\ FieldIs(e, "no", p.no) /\ FieldIs(e, "time", p.time_str)

\* e has each of the three fields exactly once, each with a text.
HasEachFieldOnce(e) ==
    \A t \in {"name", "no", "time"} :
        /\ Cardinality({j \in DOMAIN e.kids : e.kids[j].tag = t}) = 1
        /\ \E j \in DOMAIN e.kids : e.kids[j].tag = t /\ e.kids[j].text # None

\* out is exactly the records of ps with identifier id, in the order of ps.
ExactlyTheMatches(out, ps, id) ==
    LET idx == {i \in DOMAIN ps : ps[i].no = id}
    IN  /\ Len(out) = Cardinality(idx)
        /\ \E f \in [DOMAIN out -> idx] :
              /\ \A j, k \in DOMAIN out : j < k => f[j] < f[k]
              /\ \A k \in DOMAIN out : out[k] = ps[f[k]]

\* The decimal value of a group of one or two digits.
GroupValue(g) ==
    IF Len(g) = 1 THEN DigitValue(g[1]) ELSE 10 * DigitValue(g[1]) + DigitValue(g[2])

\* One or two decimal digits with a value of at most max; the first of two
\* digits is an ASCII digit.
IsGroup(g, max) ==
    /\ Len(g) \in {1, 2}
    /\ \A i \in DOMAIN g : IsDecimal(g[i])
    /\ Len(g) = 2 => g[1] \in AsciiDigits
    /\ GroupValue(g) <= max

\* Exactly two ASCII digits, a colon, two ASCII digits, hour 0..23, minute 0..59.
ZeroPadded(s) ==
    /\ Len(s) = 5
    /\ s[3] = ":"
    /\ \A i \in {1, 2, 4, 5} : s[i] \in AsciiDigits
    /\ GroupValue(SubSeq(s, 1, 2)) <= 23
    /\ GroupValue(SubSeq(s, 4, 5)) <= 59

\* An hour of one or two digits, a colon, a minute of one or two digits, hour
\* 0..23 and minute 0..59; the second digit of an hour 20..23 is an ASCII digit.
HourColonMinute(s) ==
    \E h \in {1, 2} :
        /\ Len(s) >= h + 2
        /\ s[h + 1] = ":"
        /\ IsGroup(SubSeq(s, 1, h), 23)
        /\ (h = 2 /\ GroupValue(SubSeq(s, 1, h)) >= 20) => s[2] \in AsciiDigits
        /\ IsGroup(SubSeq(s, h + 2, Len(s)), 59)

\* What the user typed behind the command word and one blank.
TypedRest(l) ==
    LET w == IF l.op = "select" THEN W_select ELSE IF l.op = "load" THEN W_load ELSE W_save
    IN  SubSeq(l.line, Len(w) + 2, Len(l.line))

(***************************************************************************)
(* The claims                                                              *)
(***************************************************************************)

\* C1: after every successful add the list is ascending by name, and for every
\* name the records of that name are the ones the list held before, in their
\* old order, followed by the new record when it has that name - whatever the
\* list was before (a list loaded from a file that is not in name order too).
C1_AddSortsStably ==
    [][(last'.op = "add" /\ last'.exc = "") =>
          /\ SortedByName(planes')
          /\ Len(planes') = Len(planes) + 1
          /\ \A n \in NamesIn(planes') :
                WithName(planes', n) =
                    WithName(planes, n)
                    \o (IF last'.input[1] = n THEN <<LastInput(last')>> ELSE <<>>)]_vars

\* C1 witness: DocUnsorted was loaded (b before B&) and b/A7/09:50 was added:
\* B& moved to the front, the new b stands behind the b that was there.
C1_Witness ==
    /\ last.op = "add" /\ last.exc = ""
    /\ planes = << Plane(N_Bamp, No_A7, T_0950), Plane(N_b, No_a7, T_9999),
                   Plane(N_b, No_A7, T_0950) >>

\* C2: an add whose time string fails the validation raises IllegalDateError
\* carrying that string, and the list is the same sequence as before.
C2_BadTimeLeavesStore ==
    [][(last'.op = "add" /\ ~strptime(last'.input[3])) =>
          /\ last'.exc = "IllegalDateError"
          /\ last'.payload = last'.input[3]
          /\ planes' = planes]_vars

\* C2 witness: 25:99 was refused while the list held records.
C2_Witness ==
    /\ last.op = "add" /\ last.exc = "IllegalDateError" /\ last.payload = T_2599
    /\ Len(planes) >= 2

\* C3 as claimed: add accepts the time exactly when it is zero-padded HH:MM,
\* and stores an accepted time as given.
C3_OnlyZeroPadded ==
    last.op = "add" =>
        /\ (last.exc = "") <=> ZeroPadded(tin)
        /\ last.exc = "" => planes = <<Plane(N_b, No_A7, tin)>>

\* C3 amended: add accepts the time exactly when it is an hour of one or two
\* digits, a colon and a minute of one or two digits with hour 0..23 and
\* minute 0..59 (padding optional), and stores an accepted time as given; a
\* refused time leaves the list empty.
C3_HourColonMinute ==
    last.op = "add" =>
        /\ (last.exc = "") <=> HourColonMinute(tin)
        /\ last.exc = "" => planes = <<Plane(N_b, No_A7, tin)>>
        /\ last.exc # "" => planes = <<>>

\* C3 witness: 9:5 was accepted and is stored as 9:5.
C3_Witness ==
    /\ last.op = "add" /\ last.exc = "" /\ tin = T_9_5
    /\ planes = <<Plane(N_b, No_A7, T_9_5)>>

\* C4 as claimed: a load that follows a save to the same path gives back the
\* list that was saved.
C4_RoundTrip ==
    [][(/\ last.op = "save" /\ last.exc = ""
        /\ last'.op = "load" /\ last'.exc = ""
        /\ last'.arg = last.arg) => planes' = planes]_vars

\* C5 as claimed: after a successful load the list holds, in document order,
\* one record for each element that has the three fields, and none for others.
C5_OneRecordPerElement ==
    (last.op = "load" /\ last.exc = "") =>
        LET complete == SelectSeq(DocOf(fs, last.arg).kids, HasAllFields)
        IN  /\ Len(planes) = Len(complete)
            /\ \A i \in DOMAIN planes : i <= Len(complete) => TakenFrom(planes[i], complete[i])

\* C6: a load that cannot read the path or finds text that is not well-formed
\* raises and leaves the list as it was; a load that returns leaves only
\* records whose fields stand in the file.
C6_LoadAllOrNothing ==
    [][last'.op = "load" /\ last'.exc # "IndexError" =>
          /\ (~CanRead(fs, last'.arg) \/ ~fromstring(fs[last'.arg].data).ok)
                => (last'.exc \in {"FileNotFoundError", "ParseError"} /\ planes' = planes)
          /\ last'.exc # "" => planes' = planes
          /\ last'.exc = "" =>
                \A i \in DOMAIN planes' :
                    \E k \in DOMAIN DocOf(fs, last'.arg).kids :
                        TakenFrom(planes'[i], DocOf(fs, last'.arg).kids[k])]_vars

\* C6 witness: the load of the broken file failed with records in the list.
C6_Witness ==
    /\ last.op = "load" /\ last.exc = "ParseError"
    /\ Len(planes) >= 1

\* C7: select returns exactly the records whose identifier equals its
\* argument, in list order, duplicates included, and leaves the list alone.
C7_SelectExact ==
    [][(last'.op = "select" /\ last'.exc = "") =>
          /\ planes' = planes
          /\ ExactlyTheMatches(last'.out, planes, last'.arg)]_vars

\* C7 witness: two equal records with identifier a7 were selected out of three.
C7_Witness ==
    /\ last.op = "select" /\ last.exc = ""
    /\ Len(planes) = 3 /\ Len(last.out) = 2 /\ last.out[1] = last.out[2]

\* C8: a successful load leaves the records in the order of the file, with a
\* record for every element that has each field once - valid time or not,
\* sorted or not - and the list changes only with a successful add or load.
C8_LoadKeepsFileOrder ==
    /\ [](last.op = "load" /\ last.exc = "" =>
            LET elems == DocOf(fs, last.arg).kids
            IN  \E g \in [DOMAIN planes -> DOMAIN elems] :
                    /\ \A i, j \in DOMAIN planes : i < j => g[i] <= g[j]
                    /\ \A i \in DOMAIN planes : TakenFrom(planes[i], elems[g[i]])
                    /\ \A k \in DOMAIN elems :
                          HasEachFieldOnce(elems[k]) => \E i \in DOMAIN planes : g[i] = k)
    /\ [][planes' # planes => (last'.op \in {"add", "load"} /\ last'.exc = "")]_vars

\* C8 witness: the list is the one loaded from DocUnsorted, b before B& and
\* the time 99:99 in it, and a later command that is no add has run.
C8_Witness ==
    /\ last.op = "list"
    /\ planes = << Plane(N_b, No_a7, T_9999), Plane(N_Bamp, No_A7, T_0950) >>

\* C9: an exception of a command is reported, changes neither the list nor
\* the files, and leaves the loop running; the loop ends with exit only.
C9_NoErrorIsFatal ==
    [][/\ last'.exc # "" =>
            (running' /\ last'.shown = "error" /\ planes' = planes /\ fs' = fs)
       /\ (running /\ ~running') => last'.op = "exit"
       /\ ~running => UNCHANGED vars]_vars

\* C9 witness: a save into a missing directory failed and the loop runs on.
C9_Witness ==
    /\ last.op = "save" /\ last.exc = "FileNotFoundError" /\ last.shown = "error"
    /\ running /\ Len(planes) >= 1

\* C10 as claimed: select, load and save get the rest of the line as typed, a
\* record with the typed identifier is found, and "not found" is shown exactly
\* when select returned nothing.
C10_ArgumentAsTyped ==
    (last.op \in {"select", "load", "save"} /\ last.exc # "IndexError") =>
        /\ last.arg = TypedRest(last)
        /\ last.op = "select" =>
              /\ (\E i \in DOMAIN planes : planes[i].no = TypedRest(last)) => last.out # <<>>
              /\ (last.shown = "notfound") <=> (last.out = <<>>)

====
